---- MODULE Spec2Model ----
(***************************************************************************)
(* Model of the contract dispatch core of cw-multi-test:                   *)
(*   contracts/context.rs          Type Customization (customize)          *)
(*   contracts/entry_points.rs     entry point traits, casts, defaults     *)
(*   contracts/contract_wrapper.rs ContractWrapper, the Contract facade    *)
(*                                                                         *)
(* Type parameters of the Rust code (Q, C, Msg) are carried as tags in the *)
(* values, so that a conversion between type parameters is a visible step. *)
(* A call has one of three outcomes: "ok" (Ok(..)), "err" (Err(anyhow))    *)
(* and "panic" (unwinding: unreachable!() or panic!()).                    *)
(***************************************************************************)
EXTENDS Integers, Sequences, FiniteSets, TLC

VARIABLES
    stargate,   \* cargo feature "stargate" of the build
    cz,         \* Type Customization: the last conversion (input, target, outcome)
    wrapper,    \* the ContractWrapper: its six *_fn fields
    installed,  \* the ContractWrapper as its constructor returned it
    store,      \* contents of the storage behind each storage handle
    last,       \* facade: the last call (operation, inputs, store before, outcome)
    invoked,    \* facade: the handler invocations made by the last call
    cast        \* casting: the last cast binding built and its invocation

vars == <<stargate, cz, wrapper, installed, store, last, invoked, cast>>

----------------------------------------------------------------------------
(* Bounds of the model *)

MaxMsgs == 2      \* sub-messages of a Response drawn as input
MaxId == 2        \* correlation ids 1..MaxId
MaxCount == 3     \* the counter kept in storage is 0..MaxCount

----------------------------------------------------------------------------
(* Values *)

None == [some |-> FALSE, v |-> 0]
Some(x) == [some |-> TRUE, v |-> x]

\* The baseline extension type and the concrete ones.
Empty == "Empty"
ExtMsgTypes == {"Empty", "CustomA", "CustomB"}
ExtQueryTypes == {"Empty", "QueryA", "QueryB"}

\* anyhow::Result / unwinding
NoValue == [none |-> TRUE]
Ok(v) == [kind |-> "ok", error |-> "", value |-> v]
Err(e) == [kind |-> "err", error |-> e, value |-> NoValue]
Panic(e) == [kind |-> "panic", error |-> e, value |-> NoValue]

\* CosmosMsg variants. Ibc, Stargate and Gov exist only with feature "stargate";
\* Gov is the variant of the non-exhaustive enum that customize does not list.
CoreVariants == {"Wasm", "Bank", "Staking", "Distribution", "Custom"}
StargateVariants == {"Ibc", "Stargate", "Gov"}
Variants == IF stargate THEN CoreVariants \cup StargateVariants ELSE CoreVariants

CosmosMsg(variant) == [variant |-> variant, body |-> variant \o "-body"]

ReplyOn == {"Always", "Error", "Success", "Never"}
GasLimits == {None, Some(7)}

SubMsg(msg, id, gas_limit, reply_on, C) ==
    [msg |-> msg, id |-> id, gas_limit |-> gas_limit, reply_on |-> reply_on, ext |-> C]

\* Every SubMsg<Empty> of the build.
SubMsgs ==
    {SubMsg(CosmosMsg(v), id, g, r, Empty) :
        v \in Variants, id \in 1..MaxId, g \in GasLimits, r \in ReplyOn}

Attr(k, v) == <<k, v>>
Event(ty) == [ty |-> ty, attributes |-> <<Attr("by", ty)>>]

\* Response::new()
Response_new(C) ==
    [messages |-> <<>>, attributes |-> <<>>, events |-> <<>>, data |-> None, ext |-> C]
add_submessages(resp, msgs) == [resp EXCEPT !.messages = @ \o msgs]
add_events(resp, events) == [resp EXCEPT !.events = @ \o events]
add_attributes(resp, attrs) == [resp EXCEPT !.attributes = @ \o attrs]

----------------------------------------------------------------------------
(* contracts/context.rs: Type Customization *)

\* {:?} of an Option<u64>
DebugOption(o) == IF o.some THEN "Some(" \o ToString(o.v) \o ")" ELSE "None"

\* {:?} of a CosmosMsg<Empty>: the derived Debug. Stargate is a struct variant
\* { type_url, value }, Custom holds the extension value (Empty), every other
\* variant is a tuple variant around its body.
DebugCosmosMsg(msg) ==
    CASE msg.variant = "Stargate" ->
            "Stargate { type_url: \"" \o msg.body \o "\", value: Binary() }"
      [] msg.variant = "Custom" -> "Custom(" \o Empty \o ")"
      [] OTHER -> msg.variant \o "(Body(\"" \o msg.body \o "\"))"

\* {:?} of a SubMsg: the derived Debug, fields in declaration order.
DebugSubMsg(self) ==
    "SubMsg { id: " \o ToString(self.id)
        \o ", msg: " \o DebugCosmosMsg(self.msg)
        \o ", gas_limit: " \o DebugOption(self.gas_limit)
        \o ", reply_on: " \o self.reply_on \o " }"

\* Mutant: a variant the match does not list is passed through.
customize_msg_match_lenient(self) ==
    IF self.msg.variant = "Custom"
    THEN Panic("internal error: entered unreachable code")
    ELSE Ok(self.msg)

\* The match on self.msg of CustomizeMsg::customize.
customize_msg_match(self) ==
    CASE self.msg.variant = "Wasm" -> Ok(self.msg)
      [] self.msg.variant = "Bank" -> Ok(self.msg)
      [] self.msg.variant = "Staking" -> Ok(self.msg)
      [] self.msg.variant = "Distribution" -> Ok(self.msg)
      [] self.msg.variant = "Custom" -> Panic("internal error: entered unreachable code")
      [] stargate /\ self.msg.variant = "Ibc" -> Ok(self.msg)
      [] stargate /\ self.msg.variant = "Stargate" -> Ok(self.msg)
      [] OTHER -> Panic("unknown message variant " \o DebugSubMsg(self))

\* Mutant: the envelope is rebuilt with SubMsg::new, losing policy and ceiling.
CustomizeMsg_customize_rebuilt(self, C) ==
    LET m == customize_msg_match(self)
    IN  IF m.kind = "panic" THEN m
        ELSE Ok(SubMsg(m.value, self.id, None, "Never", C))

\* impl<C> CustomizeMsg<C> for SubMsg<Empty>
CustomizeMsg_customize(self, C) ==
    LET m == customize_msg_match(self)
    IN  IF m.kind = "panic" THEN m
        ELSE Ok(SubMsg(m.value, self.id, self.gas_limit, self.reply_on, C))

\* self.messages.into_iter().map(CustomizeMsg::customize), consumed in order:
\* the first envelope whose conversion panics ends the iteration.
RECURSIVE map_customize(_, _, _)
map_customize(msgs, C, acc) ==
    IF msgs = <<>> THEN Ok(acc)
    ELSE LET m == CustomizeMsg_customize(Head(msgs), C)
         IN  IF m.kind = "panic" THEN m
             ELSE map_customize(Tail(msgs), C, Append(acc, m.value))

\* Mutant: the data payload is not carried over.
CustomizeResponse_customize_nodata(self, C) ==
    LET msgs == map_customize(self.messages, C, <<>>)
    IN  IF msgs.kind = "panic" THEN msgs
        ELSE Ok(add_attributes(
                    add_events(
                        add_submessages(Response_new(C), msgs.value),
                        self.events),
                    self.attributes))

\* impl<C> CustomizeResponse<C> for Response<Empty>
CustomizeResponse_customize(self, C) ==
    LET msgs == map_customize(self.messages, C, <<>>)
    IN  IF msgs.kind = "panic" THEN msgs
        ELSE LET resp == add_attributes(
                             add_events(
                                 add_submessages(Response_new(C), msgs.value),
                                 self.events),
                             self.attributes)
             IN  Ok([resp EXCEPT !.data = self.data])

----------------------------------------------------------------------------
(* Inputs of the Type Customization specification *)

SeqsUpTo(S, n) == UNION {[1..k -> S] : k \in 0..n}

\* Envelopes used inside drawn Responses: every variant, two profiles of
\* (id, gas ceiling, reply policy).
ResponseSubMsgs ==
    {m \in SubMsgs :
        \/ m.id = 1 /\ m.gas_limit = None /\ m.reply_on = "Never"
        \/ m.id = MaxId /\ m.gas_limit = Some(7) /\ m.reply_on = "Success"}

EventSeqs == {<<>>, <<Event("a"), Event("b")>>, <<Event("b"), Event("a")>>}
AttrSeqs == {<<>>, <<Attr("action", "increment"), Attr("k", "v")>>,
             <<Attr("k", "v"), Attr("action", "increment")>>}
Datas == {None, Some(5)}

Responses ==
    {[messages |-> ms, attributes |-> ats, events |-> es, data |-> d, ext |-> Empty] :
        ms \in SeqsUpTo(ResponseSubMsgs, MaxMsgs), ats \in AttrSeqs,
        es \in EventSeqs, d \in Datas}

CzIdle == [op |-> "none", input |-> NoValue, target |-> Empty, out |-> Ok(NoValue)]

\* SubMsg<Empty>::customize::<C>()
WidenSubMsg ==
    /\ cz.op = "none"
    /\ \E m \in SubMsgs, C \in ExtMsgTypes :
          cz' = [op |-> "submsg", input |-> m, target |-> C,
                 out |-> CustomizeMsg_customize(m, C)]
    /\ UNCHANGED <<stargate, wrapper, installed, store, last, invoked, cast>>

\* Response<Empty>::customize::<C>()
WidenResponse ==
    /\ cz.op = "none"
    /\ \E r \in Responses, C \in ExtMsgTypes :
          cz' = [op |-> "response", input |-> r, target |-> C,
                 out |-> CustomizeResponse_customize(r, C)]
    /\ UNCHANGED <<stargate, wrapper, installed, store, last, invoked, cast>>

\* The conversion has returned (or unwound); the caller goes on.
WidenReturn ==
    /\ cz.op # "none"
    /\ cz' = CzIdle
    /\ UNCHANGED <<stargate, wrapper, installed, store, last, invoked, cast>>

----------------------------------------------------------------------------
(* Request contexts: cosmwasm_std Deps / DepsMut *)

StorageHandles == {"s1", "s2"}
Queriers == {"qr1", "qr2"}

\* QuerierWrapper::new(querier): a reference to the dispatcher, typed by Q.
QuerierWrapper_new(querier, Q) == [querier |-> querier, q |-> Q]

DepsMut(storage, api, querier) ==
    [ctx |-> "DepsMut", storage |-> storage, api |-> api, querier |-> querier]
Deps(storage, api, querier) ==
    [ctx |-> "Deps", storage |-> storage, api |-> api, querier |-> querier]

\* impl CustomizeDepsMut<Empty> for &mut DepsMut<Q>
CustomizeDepsMut_customize(self) ==
    DepsMut(self.storage, self.api, QuerierWrapper_new(self.querier.querier, Empty))

\* impl CustomizeDeps<Empty> for &Deps<Q>
CustomizeDeps_customize(self) ==
    Deps(self.storage, self.api, QuerierWrapper_new(self.querier.querier, Empty))

\* What the dispatcher behind a querier answers to the baseline query.
query_dispatch(querier) == IF querier.querier = "qr1" THEN 1 ELSE 2

Envs == {[height |-> "h1"], [height |-> "h2"]}
Infos == {[sender |-> "owner"], [sender |-> "other"]}
NoInfo == [sender |-> "-"]

\* cosmwasm_std::Reply
Replies == {[id |-> i, result |-> r] : i \in 1..MaxId, r \in {"ok", "err"}}

----------------------------------------------------------------------------
(* Decoding: cosmwasm_std::from_slice into the binding's Msg type *)

Payloads ==
    {"{}", "{\"count\":1}", "{\"increment\":{\"by\":1}}", "{\"increment\":{\"by\":2}}",
     "{\"reset\":{}}", "{\"forward\":{}}", "{\"sync\":{}}", "{\"set\":2}",
     "{\"get_count\":{}}", "{\"remote\":{}}", "{", "nope"}

\* The JSON text of a payload: an object with (at most) one key and the number
\* under it, an object cut off after its brace, or no object at all.
NoJson(shape) == [valid |-> FALSE, shape |-> shape, key |-> "", num |-> 0]
Json(key, num) == [valid |-> TRUE, shape |-> "object", key |-> key, num |-> num]

parse_json(bytes) ==
    CASE bytes = "{}" -> Json("", 0)
      [] bytes = "{\"count\":1}" -> Json("count", 1)
      [] bytes = "{\"increment\":{\"by\":1}}" -> Json("increment", 1)
      [] bytes = "{\"increment\":{\"by\":2}}" -> Json("increment", 2)
      [] bytes = "{\"reset\":{}}" -> Json("reset", 0)
      [] bytes = "{\"forward\":{}}" -> Json("forward", 0)
      [] bytes = "{\"sync\":{}}" -> Json("sync", 0)
      [] bytes = "{\"set\":2}" -> Json("set", 2)
      [] bytes = "{\"get_count\":{}}" -> Json("get_count", 0)
      [] bytes = "{\"remote\":{}}" -> Json("remote", 0)
      [] bytes = "{" -> NoJson("open")
      [] OTHER -> NoJson("ident")

Msg(type, variant, n) == [type |-> type, variant |-> variant, n |-> n]

\* The crate that declares the message types of the bound contract.
ContractCrate == "harness"

\* std::any::type_name::<T>()
type_name(T) ==
    IF T = "Empty" THEN "cosmwasm_std::results::empty::Empty"
    ELSE ContractCrate \o "::" \o T

\* StdError::ParseErr { target_type, msg }, as anyhow renders it. A string of
\* this language cannot hold the grave accent that serde puts around names:
\* it is written as an apostrophe in the causes below.
ParseErr(T, cause) == Err("Error parsing into type " \o type_name(T) \o ": " \o cause)

\* Message types: structs (the field that must be present, "" for none) and
\* enums (the variants, in declaration order, as serde lists them).
StructTypes == {"Empty", "InstantiateMsg", "SudoMsg"}
RequiredField(T) ==
    CASE T = "InstantiateMsg" -> "count" [] T = "SudoMsg" -> "set" [] OTHER -> ""
ExpectedVariants(T) ==
    IF T = "ExecuteMsg" THEN "one of 'increment', 'reset', 'forward', 'sync'"
    ELSE "'get_count' or 'remote'"
VariantOf(T, key) ==
    CASE T = "ExecuteMsg" /\ key = "increment" -> "Increment"
      [] T = "ExecuteMsg" /\ key = "reset" -> "Reset"
      [] T = "ExecuteMsg" /\ key = "forward" -> "Forward"
      [] T = "ExecuteMsg" /\ key = "sync" -> "Sync"
      [] T = "QueryMsg" /\ key = "get_count" -> "GetCount"
      [] T = "QueryMsg" /\ key = "remote" -> "Remote"
      [] OTHER -> ""

\* The position the decoder reports with a failure; a payload is one line.
Position(column) == " at line 1 column " \o ToString(column)

\* from_slice::<T>(bytes). A struct takes any object that has its field (other
\* fields are skipped); an enum takes an object keyed by one of its variants.
\* A failure is reported at the byte the decoder had reached: the end of the
\* object for a missing field, the end of the key for an unknown variant.
from_slice(T, bytes) ==
    LET j == parse_json(bytes)
    IN  IF T \in StructTypes
        THEN CASE j.shape = "open" ->
                    ParseErr(T, "EOF while parsing an object" \o Position(Len(bytes)))
               [] j.shape = "ident" -> ParseErr(T, "expected ident" \o Position(2))
               [] RequiredField(T) = "" -> Ok(Msg(T, T, 0))
               [] j.key = RequiredField(T) -> Ok(Msg(T, T, j.num))
               [] OTHER -> ParseErr(T, "missing field '" \o RequiredField(T) \o "'"
                                       \o Position(Len(bytes)))
        ELSE CASE j.shape = "open" ->
                    ParseErr(T, "EOF while parsing a value" \o Position(Len(bytes)))
               [] j.shape = "ident" -> ParseErr(T, "expected value" \o Position(1))
               [] j.key = "" -> ParseErr(T, "expected value" \o Position(2))
               [] VariantOf(T, j.key) # "" -> Ok(Msg(T, VariantOf(T, j.key), j.num))
               [] OTHER -> ParseErr(T, "unknown variant '" \o j.key \o "', expected "
                                       \o ExpectedVariants(T) \o Position(Len(j.key) + 3))

\* The values of a message type.
MsgsOf(T) == {from_slice(T, p).value : p \in {b \in Payloads : from_slice(T, b).kind = "ok"}}

----------------------------------------------------------------------------
(* contracts/entry_points.rs: entry points *)

\* A native function used as an entry point: fn(DepsMut<Q>, Env, ..) -> Result<_, E>.
Fn(name, shape, ctx, T, Q, C) ==
    [tag |-> "fn", name |-> name, shape |-> shape, ctx |-> ctx, Msg |-> T, Q |-> Q, C |-> C]

\* FnWrapper { f, _phantom: PhantomData<Msg> }
WrappableFn_wrap(f, T) ==
    [tag |-> "FnWrapper", f |-> f, shape |-> f.shape, ctx |-> f.ctx, Msg |-> T,
     Q |-> f.Q, C |-> f.C]

\* A closure built by one of the cast functions, capturing f.
Closure(name, f, ctx, Q, C) ==
    [tag |-> "closure", name |-> name, f |-> f, shape |-> f.shape, ctx |-> ctx,
     Msg |-> f.Msg, Q |-> Q, C |-> C]

\* An Fn closure that is no native function and captures used: Cell<bool>:
\*   move |deps, env, info, msg| if used.replace(true) { bail!("already executed") }
\*                               else { counter_execute(deps, env, info, msg) }
\* Fn takes &self, and a Cell is written through &self.
OnceClosure(Q, C) ==
    [tag |-> "once", name |-> "once_execute", shape |-> "ContractFn", ctx |-> "DepsMut",
     Msg |-> "ExecuteMsg", Q |-> Q, C |-> C, used |-> FALSE]

Result(out, st) == [out |-> out, store |-> st]

\* Default 'sudo' entry point used when none is provided
default_sudo_fn(deps, env, msg, st) ==
    Result(Err("Sudo not implemented on the contract"), st)

\* Default 'reply' entry point used when none is provided
default_reply_fn(deps, env, msg, st) ==
    Result(Err("Reply not implemented on the contract"), st)

\* Default 'migrate' entry point used when none is provided
default_migrate_fn(deps, env, msg, st) ==
    Result(Err("Migrate not implemented on the contract"), st)

(* The contract bound in the model: a counter kept under the storage handle. *)

Count(deps, st) == st[deps.storage]
SetCount(deps, st, n) == [st EXCEPT ![deps.storage] = n]
Attrs(C, attrs) == add_attributes(Response_new(C), attrs)

counter_instantiate(C, deps, env, info, msg, st) ==
    Result(Ok(Attrs(C, <<Attr("action", "instantiate"), Attr("sender", info.sender),
                         Attr("height", env.height)>>)),
           SetCount(deps, st, msg.n))

counter_execute(C, deps, env, info, msg, st) ==
    CASE msg.variant = "Increment" ->
            IF Count(deps, st) + msg.n > MaxCount
            THEN Result(Err("overflow"), st)
            ELSE Result(Ok(Attrs(C, <<Attr("action", "increment")>>)),
                        SetCount(deps, st, Count(deps, st) + msg.n))
      [] msg.variant = "Reset" ->
            IF info.sender # "owner"
            THEN Result(Err("unauthorized"), st)
            ELSE Result(
                    Ok([add_events(
                            add_submessages(
                                Attrs(C, <<Attr("action", "reset")>>),
                                <<SubMsg(CosmosMsg("Bank"), 1, None, "Success", C)>>),
                            <<Event(env.height)>>)
                        EXCEPT !.data = Some(Count(deps, st))]),
                    SetCount(deps, st, 0))
      [] msg.variant = "Forward" ->
            Result(Ok(add_submessages(
                          Attrs(C, <<Attr("action", "forward")>>),
                          <<SubMsg(CosmosMsg("Wasm"), 1, Some(7), "Always", C),
                            SubMsg(CosmosMsg("Custom"), MaxId, None, "Never", C)>>)),
                   st)
      [] OTHER ->   \* Sync: take the count from the chain
            Result(Ok(Attrs(C, <<Attr("action", "sync")>>)),
                   SetCount(deps, st, query_dispatch(deps.querier)))

counter_sudo(C, deps, env, msg, st) ==
    Result(Ok(Attrs(C, <<Attr("action", "sudo"), Attr("height", env.height)>>)),
           SetCount(deps, st, msg.n))

counter_reply(C, deps, env, msg, st) ==
    IF msg.result = "err"
    THEN Result(Err("submessage failed"), st)
    ELSE Result(Ok([Attrs(C, <<Attr("action", "reply")>>) EXCEPT !.data = Some(msg.id)]),
                SetCount(deps, st, 0))

counter_query(deps, env, msg, st) ==
    IF msg.variant = "GetCount"
    THEN Result(Ok([binary |-> Count(deps, st)]), st)
    ELSE Result(Ok([binary |-> query_dispatch(deps.querier)]), st)

\* self(deps, env, info, msg): the function behind a native entry point.
apply_fn(f, deps, env, info, msg, st) ==
    CASE f.name = "counter_instantiate" -> counter_instantiate(f.C, deps, env, info, msg, st)
      [] f.name = "counter_execute" -> counter_execute(f.C, deps, env, info, msg, st)
      [] f.name = "counter_sudo" -> counter_sudo(f.C, deps, env, msg, st)
      [] f.name = "counter_reply" -> counter_reply(f.C, deps, env, msg, st)
      [] f.name = "counter_query" -> counter_query(deps, env, msg, st)
      [] f.name = "default_sudo_fn" -> default_sudo_fn(deps, env, msg, st)
      [] f.name = "default_reply_fn" -> default_reply_fn(deps, env, msg, st)
      [] OTHER -> default_migrate_fn(deps, env, msg, st)

\* .map_err(Into::into): the handler's error becomes the anyhow error.
map_err_into(r) == r

\* .map(|resp| resp.customize()): a Response is widened, an error passes.
map_customize_resp(r, C) ==
    IF r.out.kind = "ok"
    THEN [r EXCEPT !.out = CustomizeResponse_customize(r.out.value, C)]
    ELSE r

Invocation(f, deps, env, info, msg) ==
    [fn |-> f.name, deps |-> deps, env |-> env, info |-> info, msg |-> msg]

\* ContractFn::call / PermissionedFn::call / ReplyFn::call / QueryFn::call on a
\* binding: a native function, an FnWrapper, a closure that captures a cell, or
\* a cast closure (by its body).
\* The result carries the log of the native functions invoked.
RECURSIVE call(_, _, _, _, _, _)
call(self, deps, env, info, msg, st) ==
    CASE self.tag = "fn" ->
            LET r == map_err_into(apply_fn(self, deps, env, info, msg, st))
            IN  [out |-> r.out, store |-> r.store,
                 log |-> <<Invocation(self, deps, env, info, msg)>>]
      [] self.tag = "FnWrapper" ->
            map_err_into(call(self.f, deps, env, info, msg, st))
      [] self.tag = "once" ->
            LET r == IF self.used THEN Result(Err("already executed"), st)
                     ELSE counter_execute(self.C, deps, env, info, msg, st)
            IN  [out |-> r.out, store |-> r.store,
                 log |-> <<Invocation(self, deps, env, info, msg)>>]
      [] self.name \in {"cast_query", "cast_permissioned_query", "cast_reply_query",
                        "cast_query_QueryFn"} ->
            call(self.f, CustomizeDepsMut_customize(deps), env, info, msg, st)
      [] self.name \in {"cast_msg", "cast_permissioned_msg", "cast_reply_msg"} ->
            map_customize_resp(call(self.f, deps, env, info, msg, st), self.C)
      [] OTHER ->   \* cast_fn, cast_permissioned_fn, cast_reply_fn
            map_customize_resp(
                call(self.f, CustomizeDepsMut_customize(deps), env, info, msg, st),
                self.C)

----------------------------------------------------------------------------
(* contracts/entry_points.rs: Type-Parameter Casting *)

\* The impls of the customization traits (context.rs): CustomizeDepsMut<Empty>
\* is implemented for &mut DepsMut<Q> alone, CustomizeResponse<C> for
\* Response<Empty> alone.
Impl_CustomizeDepsMut(SelfType, Q) == SelfType = "&mut DepsMut" /\ Q = Empty
Impl_CustomizeResponse(C) == C = Empty

\* where for<'a> DepsMut<'a, NewQ>: CustomizeDepsMut<'a, Q>  (the owned DepsMut)
NarrowingBound(f) == Impl_CustomizeDepsMut("DepsMut", f.Q)
\* where Response<C>: CustomizeResponse<NewC>
WideningBound(f) == Impl_CustomizeResponse(f.C)

\* The compiler rejects the function or its instantiation: no binding exists.
Rejected(errors) == [tag |-> "rejected", errors |-> errors]

cast_query(NewQ, f) ==
    IF NarrowingBound(f)
    THEN WrappableFn_wrap(Closure("cast_query", f, "DepsMut", NewQ, f.C), f.Msg)
    ELSE Rejected({"E0277"})

cast_msg(NewC, f) ==
    IF WideningBound(f)
    THEN WrappableFn_wrap(Closure("cast_msg", f, "DepsMut", f.Q, NewC), f.Msg)
    ELSE Rejected({"E0277"})

cast_fn(NewQ, NewC, f) ==
    IF NarrowingBound(f) /\ WideningBound(f)
    THEN WrappableFn_wrap(Closure("cast_fn", f, "DepsMut", NewQ, NewC), f.Msg)
    ELSE Rejected({"E0277"})

cast_permissioned_query(NewQ, f) ==
    IF NarrowingBound(f)
    THEN WrappableFn_wrap(Closure("cast_permissioned_query", f, "DepsMut", NewQ, f.C), f.Msg)
    ELSE Rejected({"E0277"})

cast_permissioned_msg(NewC, f) ==
    IF WideningBound(f)
    THEN WrappableFn_wrap(Closure("cast_permissioned_msg", f, "DepsMut", f.Q, NewC), f.Msg)
    ELSE Rejected({"E0277"})

cast_permissioned_fn(NewQ, NewC, f) ==
    IF NarrowingBound(f) /\ WideningBound(f)
    THEN WrappableFn_wrap(Closure("cast_permissioned_fn", f, "DepsMut", NewQ, NewC), f.Msg)
    ELSE Rejected({"E0277"})

cast_reply_query(NewQ, f) ==
    IF NarrowingBound(f)
    THEN Closure("cast_reply_query", f, "DepsMut", NewQ, f.C)
    ELSE Rejected({"E0277"})

cast_reply_msg(NewC, f) ==
    IF WideningBound(f)
    THEN Closure("cast_reply_msg", f, "DepsMut", f.Q, NewC)
    ELSE Rejected({"E0277"})

cast_reply_fn(NewQ, NewC, f) ==
    IF NarrowingBound(f) /\ WideningBound(f)
    THEN Closure("cast_reply_fn", f, "DepsMut", NewQ, NewC)
    ELSE Rejected({"E0277"})

\* cast_query for QueryFn (the second function of that name). Its closure
\* takes deps: DepsMut<NewQ> and hands deps.customize(), a DepsMut, to
\* QueryFn::call, which takes Deps (E0308); the wrapped closure is then no
\* QueryFn (E0631); and the name is already defined at line 35 (E0428).
cast_query_QueryFn(NewQ, f) ==
    LET c == Closure("cast_query_QueryFn", f, "DepsMut", NewQ, f.C)
        errors == {"E0428"} \cup (IF c.ctx # f.ctx THEN {"E0308", "E0631"} ELSE {})
    IN  IF errors # {} THEN Rejected(errors)
        ELSE IF NarrowingBound(f) THEN WrappableFn_wrap(c, f.Msg)
        ELSE Rejected({"E0277"})

----------------------------------------------------------------------------
(* contracts/contract_wrapper.rs: the Contract facade *)

\* Mutant: the migrate default is installed in the sudo slot as well.
ContractWrapper_new_swapped(execute_fn, instantiate_fn, query_fn, Q, C) ==
    [execute_fn |-> execute_fn,
     instantiate_fn |-> instantiate_fn,
     query_fn |-> query_fn,
     sudo_fn |-> Fn("default_migrate_fn", "PermissionedFn", "DepsMut", "Empty", Q, C),
     reply_fn |-> Fn("default_reply_fn", "ReplyFn", "DepsMut", "Reply", Q, C),
     migrate_fn |-> Fn("default_migrate_fn", "PermissionedFn", "DepsMut", "Empty", Q, C)]

\* ContractWrapper::new(execute_fn, instantiate_fn, query_fn) for Contract<C, Q>
ContractWrapper_new(execute_fn, instantiate_fn, query_fn, Q, C) ==
    [execute_fn |-> execute_fn,
     instantiate_fn |-> instantiate_fn,
     query_fn |-> query_fn,
     sudo_fn |-> Fn("default_sudo_fn", "PermissionedFn", "DepsMut", "Empty", Q, C),
     reply_fn |-> Fn("default_reply_fn", "ReplyFn", "DepsMut", "Reply", Q, C),
     migrate_fn |-> Fn("default_migrate_fn", "PermissionedFn", "DepsMut", "Empty", Q, C)]

\* Mutant: the decoding result is unwrapped instead of propagated with '?'.
call_decoded_unwrap(f, deps, env, info, msg, st) ==
    LET m == from_slice(f.Msg, msg)
    IN  IF m.kind = "err" THEN [out |-> Panic(m.error), store |-> st, log |-> <<>>]
        ELSE call(f, deps, env, info, m.value, st)

\* f.call(deps, env, info, from_slice(&msg)?): the '?' returns the decoding
\* error before the binding is called.
call_decoded(f, deps, env, info, msg, st) ==
    LET m == from_slice(f.Msg, msg)
    IN  IF m.kind = "err" THEN [out |-> m, store |-> st, log |-> <<>>]
        ELSE call(f, deps, env, info, m.value, st)

\* Mutant: execute dispatches to the instantiate binding.
Contract_execute_misrouted(self, deps, env, info, msg, st) ==
    call_decoded(self.instantiate_fn, deps, env, info, msg, st)

Contract_execute(self, deps, env, info, msg, st) ==
    call_decoded(self.execute_fn, deps, env, info, msg, st)

\* Mutant: instantiate dispatches to the execute binding.
Contract_instantiate_misrouted(self, deps, env, info, msg, st) ==
    call_decoded(self.execute_fn, deps, env, info, msg, st)

Contract_instantiate(self, deps, env, info, msg, st) ==
    call_decoded(self.instantiate_fn, deps, env, info, msg, st)

Contract_query(self, deps, env, msg, st) ==
    call_decoded(self.query_fn, deps, env, NoInfo, msg, st)

Contract_sudo(self, deps, env, msg, st) ==
    call_decoded(self.sudo_fn, deps, env, NoInfo, msg, st)

Contract_reply(self, deps, env, msg, st) ==
    call(self.reply_fn, deps, env, NoInfo, msg, st)

Contract_migrate(self, deps, env, msg, st) ==
    call_decoded(self.migrate_fn, deps, env, NoInfo, msg, st)

\* (self.f)(..) through &self: a native function is as it was after the call;
\* a closure that ran has written its cell.
binding_after(f, log) ==
    IF f.tag = "FnWrapper" /\ f.f.tag = "once" /\ (\E i \in DOMAIN log : log[i].fn = f.f.name)
    THEN [f EXCEPT !.f.used = TRUE]
    ELSE f

\* The methods of Contract take &self and assign no field: after a call every
\* slot holds the binding it held, as that call's invocations left it.
self_after(self, log) ==
    [execute_fn |-> binding_after(self.execute_fn, log),
     instantiate_fn |-> binding_after(self.instantiate_fn, log),
     query_fn |-> binding_after(self.query_fn, log),
     sudo_fn |-> binding_after(self.sudo_fn, log),
     reply_fn |-> binding_after(self.reply_fn, log),
     migrate_fn |-> binding_after(self.migrate_fn, log)]

\* Entry points of the registered contract, instantiated at the chain's (Q, C).
ContractFns(Q, C) ==
    {Fn("counter_execute", "ContractFn", "DepsMut", "ExecuteMsg", Q, C),
     Fn("counter_instantiate", "ContractFn", "DepsMut", "InstantiateMsg", Q, C)}
QueryFns(Q) == {Fn("counter_query", "QueryFn", "Deps", "QueryMsg", Q, Empty)}

ChainTypes == {<<"Empty", "Empty">>, <<"QueryA", "CustomA">>}

Wrappers ==
    UNION {{ContractWrapper_new(e, i, q, t[1], t[2]) :
               e \in ContractFns(t[1], t[2]), i \in ContractFns(t[1], t[2]),
               q \in QueryFns(t[1])} : t \in ChainTypes}

\* Facades whose execute binding is wap(closure), the closure holding a cell.
ClosureWrappers ==
    UNION {{ContractWrapper_new(WrappableFn_wrap(OnceClosure(t[1], t[2]), "ExecuteMsg"),
                                i, q, t[1], t[2]) :
               i \in ContractFns(t[1], t[2]), q \in QueryFns(t[1])} : t \in ChainTypes}

FacadeQ == wrapper.sudo_fn.Q

\* The contexts the host hands to a call.
HostDepsMut(Q) ==
    {DepsMut(s, "api1", QuerierWrapper_new(qr, Q)) : s \in StorageHandles, qr \in Queriers}
HostDeps(Q) ==
    {Deps(s, "api1", QuerierWrapper_new(qr, Q)) : s \in StorageHandles, qr \in Queriers}

LastIdle ==
    [op |-> "none", deps |-> NoValue, env |-> NoValue, info |-> NoInfo, msg |-> NoValue,
     before |-> NoValue, out |-> Ok(NoValue)]

Returned(op, deps, env, info, msg, r) ==
    /\ last' = [op |-> op, deps |-> deps, env |-> env, info |-> info, msg |-> msg,
                before |-> store, out |-> r.out]
    /\ invoked' = r.log
    /\ store' = r.store
    /\ wrapper' = self_after(wrapper, r.log)
    /\ UNCHANGED <<stargate, cz, installed, cast>>

Execute ==
    /\ last.op = "none"
    /\ \E deps \in HostDepsMut(FacadeQ), env \in Envs, info \in Infos, msg \in Payloads :
          Returned("execute", deps, env, info, msg,
                   Contract_execute(wrapper, deps, env, info, msg, store))

Instantiate ==
    /\ last.op = "none"
    /\ \E deps \in HostDepsMut(FacadeQ), env \in Envs, info \in Infos, msg \in Payloads :
          Returned("instantiate", deps, env, info, msg,
                   Contract_instantiate(wrapper, deps, env, info, msg, store))

Query ==
    /\ last.op = "none"
    /\ \E deps \in HostDeps(FacadeQ), env \in Envs, msg \in Payloads :
          Returned("query", deps, env, NoInfo, msg,
                   Contract_query(wrapper, deps, env, msg, store))

Sudo ==
    /\ last.op = "none"
    /\ \E deps \in HostDepsMut(FacadeQ), env \in Envs, msg \in Payloads :
          Returned("sudo", deps, env, NoInfo, msg,
                   Contract_sudo(wrapper, deps, env, msg, store))

Reply ==
    /\ last.op = "none"
    /\ \E deps \in HostDepsMut(FacadeQ), env \in Envs, msg \in Replies :
          Returned("reply", deps, env, NoInfo, msg,
                   Contract_reply(wrapper, deps, env, msg, store))

Migrate ==
    /\ last.op = "none"
    /\ \E deps \in HostDepsMut(FacadeQ), env \in Envs, msg \in Payloads :
          Returned("migrate", deps, env, NoInfo, msg,
                   Contract_migrate(wrapper, deps, env, msg, store))

\* The host has taken the result of the call and goes on to the next one.
HostReturn ==
    /\ last.op # "none"
    /\ last' = LastIdle
    /\ invoked' = <<>>
    /\ UNCHANGED <<stargate, cz, wrapper, installed, store, cast>>

----------------------------------------------------------------------------
(* Casting at registration time, and a call through the cast binding *)

CastIdle == [op |-> "none"]

\* Handlers of each calling shape, instantiated at (Q, C).
PermissionedFns(Q, C) ==
    {Fn("counter_sudo", "PermissionedFn", "DepsMut", "SudoMsg", Q, C),
     Fn("default_sudo_fn", "PermissionedFn", "DepsMut", "Empty", Q, C),
     Fn("default_migrate_fn", "PermissionedFn", "DepsMut", "Empty", Q, C)}
ReplyFns(Q, C) ==
    {Fn("counter_reply", "ReplyFn", "DepsMut", "Reply", Q, C),
     Fn("default_reply_fn", "ReplyFn", "DepsMut", "Reply", Q, C)}

ApiOf(s) == IF s = "s1" THEN "api1" ELSE "api2"

\* The context a caller builds for a binding: of the binding's context type,
\* over the binding's query type.
CallerDeps(b) ==
    {[ctx |-> b.ctx, storage |-> s, api |-> ApiOf(s),
      querier |-> QuerierWrapper_new(qr, b.Q)] : s \in StorageHandles, qr \in Queriers}

CallerMsgs(b) == IF b.Msg = "Reply" THEN Replies ELSE MsgsOf(b.Msg)
CallerInfos(b) == IF b.shape = "ContractFn" THEN Infos ELSE {NoInfo}

\* The outcome of a cast the compiler rejects: nothing to call.
NotBuilt(b) == [kind |-> "rejected", error |-> b.errors, value |-> NoValue]

CastRejected(op, f, b1, b2) ==
    /\ cast' = [op |-> op, f |-> f, binding |-> b1, deps |-> NoValue, env |-> NoValue,
                info |-> NoInfo, msg |-> NoValue, before |-> store, out |-> NotBuilt(b1),
                log |-> <<>>, binding2 |-> b2, out2 |-> NotBuilt(b1), store2 |-> store]
    /\ UNCHANGED <<stargate, cz, wrapper, installed, store, last, invoked>>

\* The cast binding b of f, where it exists, is called once.
CastCall(op, f, b) ==
    IF b.tag = "rejected" THEN CastRejected(op, f, b, NoValue)
    ELSE
    \E deps \in CallerDeps(b), env \in Envs, info \in CallerInfos(b), msg \in CallerMsgs(b) :
        LET r == call(b, deps, env, info, msg, store)
        IN  /\ cast' = [op |-> op, f |-> f, binding |-> b, deps |-> deps, env |-> env,
                        info |-> info, msg |-> msg, before |-> store, out |-> r.out,
                        log |-> r.log, binding2 |-> NoValue, out2 |-> Ok(NoValue),
                        store2 |-> store]
            /\ store' = r.store
            /\ UNCHANGED <<stargate, cz, wrapper, installed, last, invoked>>

\* Two cast bindings b1, b2 of f, where they exist, are called with the same
\* storage contents, handles, metadata and message.
CastCallBoth(op, f, b1, b2) ==
    IF b1.tag = "rejected" \/ b2.tag = "rejected"
    THEN CastRejected(op, f, IF b1.tag = "rejected" THEN b1 ELSE b2, b2)
    ELSE
    \E deps \in CallerDeps(b1), env \in Envs, info \in CallerInfos(b1),
       msg \in CallerMsgs(b1) :
        LET r1 == call(b1, deps, env, info, msg, store)
            deps2 == [deps EXCEPT !.querier = QuerierWrapper_new(deps.querier.querier, b2.Q)]
            r2 == call(b2, deps2, env, info, msg, store)
        IN  /\ cast' = [op |-> op, f |-> f, binding |-> b1, deps |-> deps, env |-> env,
                        info |-> info, msg |-> msg, before |-> store, out |-> r1.out,
                        log |-> r1.log, binding2 |-> b2, out2 |-> r2.out,
                        store2 |-> r2.store]
            /\ store' = r1.store
            /\ UNCHANGED <<stargate, cz, wrapper, installed, last, invoked>>

CastContractQuery ==
    /\ cast.op = "none"
    /\ \E C \in ExtMsgTypes, NewQ \in ExtQueryTypes :
          \E f \in ContractFns(Empty, C) : CastCall("cast_query", f, cast_query(NewQ, f))

CastContractMsg ==
    /\ cast.op = "none"
    /\ \E Q \in ExtQueryTypes, NewC \in ExtMsgTypes :
          \E f \in ContractFns(Q, Empty) : CastCall("cast_msg", f, cast_msg(NewC, f))

CastContractFn ==
    /\ cast.op = "none"
    /\ \E NewQ \in ExtQueryTypes, NewC \in ExtMsgTypes, f \in ContractFns(Empty, Empty) :
          CastCall("cast_fn", f, cast_fn(NewQ, NewC, f))

CastPermissionedQuery ==
    /\ cast.op = "none"
    /\ \E C \in ExtMsgTypes, NewQ \in ExtQueryTypes :
          \E f \in PermissionedFns(Empty, C) :
              CastCall("cast_permissioned_query", f, cast_permissioned_query(NewQ, f))

CastPermissionedMsg ==
    /\ cast.op = "none"
    /\ \E Q \in ExtQueryTypes, NewC \in ExtMsgTypes :
          \E f \in PermissionedFns(Q, Empty) :
              CastCall("cast_permissioned_msg", f, cast_permissioned_msg(NewC, f))

CastPermissionedFn ==
    /\ cast.op = "none"
    /\ \E NewQ \in ExtQueryTypes, NewC \in ExtMsgTypes, f \in PermissionedFns(Empty, Empty) :
          CastCall("cast_permissioned_fn", f, cast_permissioned_fn(NewQ, NewC, f))

CastReplyQuery ==
    /\ cast.op = "none"
    /\ \E C \in ExtMsgTypes, NewQ \in ExtQueryTypes :
          \E f \in ReplyFns(Empty, C) :
              CastCall("cast_reply_query", f, cast_reply_query(NewQ, f))

CastReplyMsg ==
    /\ cast.op = "none"
    /\ \E Q \in ExtQueryTypes, NewC \in ExtMsgTypes :
          \E f \in ReplyFns(Q, Empty) :
              CastCall("cast_reply_msg", f, cast_reply_msg(NewC, f))

CastReplyFn ==
    /\ cast.op = "none"
    /\ \E NewQ \in ExtQueryTypes, NewC \in ExtMsgTypes, f \in ReplyFns(Empty, Empty) :
          CastCall("cast_reply_fn", f, cast_reply_fn(NewQ, NewC, f))

CastQueryQuery ==
    /\ cast.op = "none"
    /\ \E NewQ \in ExtQueryTypes, f \in QueryFns(Empty) :
          CastCall("cast_query_QueryFn", f, cast_query_QueryFn(NewQ, f))

\* One handler full-cast to two pairs of extension types.
CastContractFnTwice ==
    /\ cast.op = "none"
    /\ \E Q1 \in ExtQueryTypes, C1 \in ExtMsgTypes, Q2 \in ExtQueryTypes, C2 \in ExtMsgTypes,
          f \in ContractFns(Empty, Empty) :
          /\ <<Q1, C1>> # <<Q2, C2>>
          /\ CastCallBoth("cast_fn_twice", f, cast_fn(Q1, C1, f), cast_fn(Q2, C2, f))

CastPermissionedFnTwice ==
    /\ cast.op = "none"
    /\ \E Q1 \in ExtQueryTypes, C1 \in ExtMsgTypes, Q2 \in ExtQueryTypes, C2 \in ExtMsgTypes,
          f \in PermissionedFns(Empty, Empty) :
          /\ <<Q1, C1>> # <<Q2, C2>>
          /\ CastCallBoth("cast_permissioned_fn_twice", f,
                          cast_permissioned_fn(Q1, C1, f), cast_permissioned_fn(Q2, C2, f))

\* The call through the cast binding has returned; the caller goes on.
CastReturn ==
    /\ cast.op # "none"
    /\ cast' = CastIdle
    /\ UNCHANGED <<stargate, cz, wrapper, installed, store, last, invoked>>

----------------------------------------------------------------------------
(* Specifications *)

EmptyStore == [h \in StorageHandles |-> 0]

InitCustomize ==
    /\ stargate \in BOOLEAN
    /\ cz = CzIdle
    /\ wrapper = NoValue
    /\ installed = NoValue
    /\ store = EmptyStore
    /\ last = LastIdle
    /\ invoked = <<>>
    /\ cast = CastIdle

NextCustomize == WidenSubMsg \/ WidenResponse \/ WidenReturn

SpecCustomize == InitCustomize /\ [][NextCustomize]_vars

InitFacade ==
    /\ stargate \in BOOLEAN
    /\ cz = CzIdle
    /\ wrapper \in Wrappers
    /\ installed = wrapper
    /\ store = EmptyStore
    /\ last = LastIdle
    /\ invoked = <<>>
    /\ cast = CastIdle

NextFacade ==
    Execute \/ Instantiate \/ Query \/ Sudo \/ Reply \/ Migrate \/ HostReturn

SpecFacade == InitFacade /\ [][NextFacade]_vars

\* The facade over every sort of binding the entry point traits admit.
InitBindings ==
    /\ stargate \in BOOLEAN
    /\ cz = CzIdle
    /\ wrapper \in Wrappers \cup ClosureWrappers
    /\ installed = wrapper
    /\ store = EmptyStore
    /\ last = LastIdle
    /\ invoked = <<>>
    /\ cast = CastIdle

SpecBindings == InitBindings /\ [][NextFacade]_vars

InitCast ==
    /\ stargate \in BOOLEAN
    /\ cz = CzIdle
    /\ wrapper = NoValue
    /\ installed = NoValue
    /\ store = EmptyStore
    /\ last = LastIdle
    /\ invoked = <<>>
    /\ cast = CastIdle

NextCast ==
    \/ CastContractQuery \/ CastContractMsg \/ CastContractFn
    \/ CastPermissionedQuery \/ CastPermissionedMsg \/ CastPermissionedFn
    \/ CastReplyQuery \/ CastReplyMsg \/ CastReplyFn
    \/ CastQueryQuery
    \/ CastContractFnTwice \/ CastPermissionedFnTwice
    \/ CastReturn

SpecCast == InitCast /\ [][NextCast]_vars

----------------------------------------------------------------------------
(* Properties of Type Customization (SpecCustomize) *)

Recognized ==
    {"Wasm", "Bank", "Staking", "Distribution"}
        \cup (IF stargate THEN {"Ibc", "Stargate"} ELSE {})

\* The envelopes of the converted input: the envelope itself, or the Response's.
CzEnvelopes == IF cz.op = "submsg" THEN <<cz.input>> ELSE cz.input.messages
CzOffending == {i \in 1..Len(CzEnvelopes) : CzEnvelopes[i].msg.variant \notin Recognized}
CzFirstOffending == CHOOSE i \in CzOffending : \A j \in CzOffending : i <= j

\* C4: a widened Response has the events, the attributes and the optional data
\* payload of the Response it was widened from, in the same order.
C4_SharedFieldsPreserved ==
    (cz.op = "response" /\ cz.out.kind = "ok") =>
        /\ cz.out.value.events = cz.input.events
        /\ cz.out.value.attributes = cz.input.attributes
        /\ cz.out.value.data = cz.input.data

C4_Witness ==
    /\ cz.op = "response" /\ cz.out.kind = "ok" /\ cz.target = "CustomB"
    /\ Len(cz.input.events) = 2 /\ Len(cz.input.attributes) = 2
    /\ cz.input.data.some /\ Len(cz.input.messages) = MaxMsgs

\* C5: widening an envelope with a non-custom recognized payload succeeds and
\* keeps id, reply policy, gas ceiling and payload; a widened Response has the
\* input's envelopes, each widened, in the same order.
C5_EnvelopePreserved ==
    /\ (cz.op = "submsg" /\ cz.input.msg.variant \in Recognized) =>
          /\ cz.out.kind = "ok"
          /\ cz.out.value.id = cz.input.id
          /\ cz.out.value.reply_on = cz.input.reply_on
          /\ cz.out.value.gas_limit = cz.input.gas_limit
          /\ cz.out.value.msg = cz.input.msg
          /\ cz.out.value.ext = cz.target
    /\ (cz.op = "response" /\ CzOffending = {}) => cz.out.kind = "ok"
    /\ (cz.op = "response" /\ cz.out.kind = "ok") =>
          /\ Len(cz.out.value.messages) = Len(cz.input.messages)
          /\ \A i \in 1..Len(cz.input.messages) :
                /\ cz.out.value.messages[i].id = cz.input.messages[i].id
                /\ cz.out.value.messages[i].reply_on = cz.input.messages[i].reply_on
                /\ cz.out.value.messages[i].gas_limit = cz.input.messages[i].gas_limit
                /\ cz.out.value.messages[i].msg = cz.input.messages[i].msg
                /\ cz.out.value.messages[i].ext = cz.target

C5_Witness ==
    /\ cz.op = "response" /\ cz.out.kind = "ok" /\ cz.target = "CustomA"
    /\ Len(cz.input.messages) = MaxMsgs
    /\ cz.input.messages[1].msg.variant = "Staking"
    /\ cz.input.messages[1].reply_on = "Success"
    /\ cz.input.messages[1].gas_limit.some
    /\ cz.input.messages[MaxMsgs].msg.variant = "Bank"
    /\ cz.input.messages[MaxMsgs].id # cz.input.messages[1].id

\* C6 as stated: an input containing an unlisted variant fails with "unknown
\* message variant", one containing the custom variant fails as unreachable.
C6_AsStated ==
    cz.op \in {"submsg", "response"} =>
        /\ (\E i \in CzOffending : CzEnvelopes[i].msg.variant # "Custom") =>
              \E j \in {k \in CzOffending : CzEnvelopes[k].msg.variant # "Custom"} :
                  cz.out = Panic("unknown message variant " \o DebugSubMsg(CzEnvelopes[j]))
        /\ (\E i \in CzOffending : CzEnvelopes[i].msg.variant = "Custom") =>
              cz.out = Panic("internal error: entered unreachable code")

\* C6, amended: an input containing an unlisted or custom variant panics, with
\* the failure of the first such envelope in order ("unknown message variant"
\* for an unlisted variant, unreachable for the custom one); the failure is a
\* panic, not an error value, and no Response is returned.
C6_FirstOffendingPanics ==
    (cz.op \in {"submsg", "response"} /\ CzOffending # {}) =>
        /\ cz.out.kind = "panic"
        /\ cz.out.value = NoValue
        /\ cz.out.error =
              IF CzEnvelopes[CzFirstOffending].msg.variant = "Custom"
              THEN "internal error: entered unreachable code"
              ELSE "unknown message variant " \o DebugSubMsg(CzEnvelopes[CzFirstOffending])

C6_Witness ==
    /\ cz.op = "response" /\ Len(cz.input.messages) = MaxMsgs
    /\ cz.input.messages[1].msg.variant = "Bank"
    /\ cz.input.messages[MaxMsgs].msg.variant = "Gov"
    /\ cz.out = Panic("unknown message variant " \o DebugSubMsg(cz.input.messages[MaxMsgs]))

----------------------------------------------------------------------------
(* Properties of the Contract facade (SpecFacade) *)

\* The binding installed for the kind of the last call.
OwnBinding(w) ==
    CASE last.op = "execute" -> w.execute_fn
      [] last.op = "instantiate" -> w.instantiate_fn
      [] last.op = "query" -> w.query_fn
      [] last.op = "sudo" -> w.sudo_fn
      [] last.op = "reply" -> w.reply_fn
      [] OTHER -> w.migrate_fn

Decoding == {"execute", "instantiate", "query", "sudo", "migrate"}

\* The last call's payload as its binding receives it.
LastDecoded ==
    IF last.op = "reply" THEN Ok(last.msg) ELSE from_slice(OwnBinding(wrapper).Msg, last.msg)

C2_OwnBindingOnce ==
    (last.op # "none" /\ LastDecoded.kind = "ok") =>
        LET own == OwnBinding(wrapper)
            r == apply_fn(own, last.deps, last.env, last.info, LastDecoded.value,
                          last.before)
        IN  /\ invoked = <<[fn |-> own.name, deps |-> last.deps, env |-> last.env,
                            info |-> last.info, msg |-> LastDecoded.value]>>
            /\ last.out = r.out
            /\ store = r.store

C2_Witness ==
    /\ last.op = "execute" /\ last.out.kind = "ok"
    /\ wrapper.execute_fn.name = "counter_execute"
    /\ wrapper.instantiate_fn.name = "counter_instantiate"
    /\ Len(last.out.value.messages) = 1
    /\ store # last.before
    /\ Len(invoked) = 1

\* C3: a call whose payload does not decode into the binding's message type
\* returns the error value, invokes no handler and leaves storage as it was.
C3_DecodeFailure ==
    (last.op \in Decoding /\ LastDecoded.kind # "ok") =>
        /\ last.out.kind = "err"
        /\ invoked = <<>>
        /\ store = last.before

C3_Witness ==
    /\ last.op = "execute" /\ last.msg = "{\"count\":1}"
    /\ wrapper.execute_fn.Msg = "ExecuteMsg"
    /\ last.out.kind = "err" /\ invoked = <<>>
    /\ \E h \in StorageHandles : store[h] > 0

----------------------------------------------------------------------------
(* Properties of the facade over stateful bindings (SpecBindings) *)

Slots == {"execute_fn", "instantiate_fn", "query_fn", "sudo_fn", "reply_fn", "migrate_fn"}

\* The slot of the binding a call of kind op is for.
OwnSlot(op) ==
    CASE op = "execute" -> "execute_fn"
      [] op = "instantiate" -> "instantiate_fn"
      [] op = "query" -> "query_fn"
      [] op = "sudo" -> "sudo_fn"
      [] op = "reply" -> "reply_fn"
      [] OTHER -> "migrate_fn"

\* The outcome of the call recorded in c (its kind, context, metadata, payload
\* and the storage contents it found) on the own binding of facade w.
OwnOutcome(w, c) ==
    IF c.op = "reply"
    THEN call(w[OwnSlot(c.op)], c.deps, c.env, c.info, c.msg, c.before)
    ELSE call_decoded(w[OwnSlot(c.op)], c.deps, c.env, c.info, c.msg, c.before)

\* A native function captures nothing.
NativeFn(f) == f.tag = "fn"

\* A binding without what it has captured.
Uncaptured(f) == IF f.tag = "FnWrapper" /\ f.f.tag = "once" THEN [f EXCEPT !.f.used = FALSE] ELSE f

----------------------------------------------------------------------------
(* Properties of Type-Parameter Casting (SpecCast) *)

\* A Response viewed in the baseline shape.
Baseline(resp) ==
    [resp EXCEPT !.ext = Empty,
                 !.messages = [i \in DOMAIN resp.messages |->
                                  [resp.messages[i] EXCEPT !.ext = Empty]]]

\* C7: a baseline handler full-cast to two pairs of extension types gives two
\* bindings which, called with the same storage contents, metadata and
\* message, agree: the same failure, or Responses equal in the baseline shape.
C7_CastsAgree ==
    cast.op \in {"cast_fn_twice", "cast_permissioned_fn_twice"} =>
        /\ cast.out.kind \in {"ok", "err", "panic"}
        /\ cast.out.kind = cast.out2.kind
        /\ cast.out.error = cast.out2.error
        /\ cast.out.kind = "ok" => Baseline(cast.out.value) = Baseline(cast.out2.value)
        /\ store = cast.store2

MsgCasts == {"cast_msg", "cast_permissioned_msg", "cast_reply_msg"}
FullCasts == {"cast_fn", "cast_permissioned_fn", "cast_reply_fn"}
QueryCasts == {"cast_query", "cast_permissioned_query", "cast_reply_query",
               "cast_query_QueryFn"}

\* The cast binding exists, invoked the original once with the caller's
\* metadata and message, and returned the widening of the original's Response,
\* or the original's error as it is.
CastWidensOutcome ==
    /\ cast.binding.tag # "rejected"
    /\ Len(cast.log) = 1
    /\ cast.log[1].fn = cast.f.name
    /\ cast.log[1].env = cast.env
    /\ cast.log[1].info = cast.info
    /\ cast.log[1].msg = cast.msg
    /\ LET orig == apply_fn(cast.f, cast.log[1].deps, cast.env, cast.info, cast.msg,
                            cast.before)
       IN  /\ store = orig.store
           /\ IF orig.out.kind = "ok"
              THEN cast.out = CustomizeResponse_customize(orig.out.value, cast.binding.C)
              ELSE cast.out = orig.out

\* C8: a message-cast or full-cast binding invokes the original once with the
\* caller's metadata and message; it returns the widening of the original's
\* Response, or the original's error as it is.
C8_CastWidensOutcome == cast.op \in MsgCasts \cup FullCasts => CastWidensOutcome

\* The part of C8 on message-casting alone (cast_msg, cast_permissioned_msg,
\* cast_reply_msg), with the original called with the caller's own context.
MsgCastWidensOutcome ==
    cast.op \in MsgCasts => CastWidensOutcome /\ cast.log[1].deps = cast.deps

MsgCastReached ==
    /\ cast.op = "cast_msg" /\ cast.f.name = "counter_execute"
    /\ cast.binding.C = "CustomB" /\ cast.msg.variant = "Increment"
    /\ cast.out.kind = "ok"
    /\ cast.out.value.attributes = <<Attr("action", "increment")>>
    /\ cast.out.value.messages = <<>>
    /\ cast.out.value.ext = "CustomB"

\* The context type of a calling shape: Deps for query, DepsMut for the others.
ContextOf(shape) == IF shape = "QueryFn" THEN "Deps" ELSE "DepsMut"

\* The cast binding invoked the original once, with the caller's context
\* narrowed to the baseline query type (same storage, api and dispatcher) and
\* the caller's metadata and message, and returned the original's outcome.
QueryCastDelegates ==
    /\ Len(cast.log) = 1
    /\ cast.log[1].fn = cast.f.name
    /\ cast.log[1].deps.storage = cast.deps.storage
    /\ cast.log[1].deps.api = cast.deps.api
    /\ cast.log[1].deps.querier = QuerierWrapper_new(cast.deps.querier.querier, Empty)
    /\ cast.log[1].env = cast.env
    /\ cast.log[1].info = cast.info
    /\ cast.log[1].msg = cast.msg
    /\ LET orig == apply_fn(cast.f, cast.log[1].deps, cast.env, cast.info, cast.msg,
                            cast.before)
       IN  cast.out = orig.out /\ store = orig.store

\* C10: query-casting gives, for every kind, a binding of the kind of the
\* original that takes that kind's context (Deps for query, DepsMut otherwise)
\* over NewQ, hands the original that context narrowed to the baseline, and is
\* transparent.
C10_QueryCastEveryKind ==
    cast.op \in QueryCasts =>
        /\ cast.binding.tag # "rejected"
        /\ cast.binding.shape = cast.f.shape
        /\ cast.binding.ctx = ContextOf(cast.f.shape)
        /\ cast.log[1].deps.ctx = ContextOf(cast.f.shape)
        /\ QueryCastDelegates

====
